---- MODULE Spec2Model ----
(***************************************************************************)
(* The wire-message layer of syft/messaging/message.py: the Message class  *)
(* hierarchy, its generic (simplify/detail) and structured                 *)
(* (bufferize/unbufferize) codec paths.  A sender constructs one message,  *)
(* encodes it, the encoding may be altered in flight, and a receiver runs  *)
(* some class's decoder on what arrives.                                   *)
(***************************************************************************)
EXTENDS Naturals, Sequences, FiniteSets, TLC

VARIABLES
    given,          \* the arguments the sender passed to the constructor
    msg,            \* the message instance the sender constructed
    sent,           \* the tuple simplify returned
    wire,           \* the tuple as it reaches a decoder
    proto,          \* the schema message bufferize returned
    decoder,        \* the class whose detail the receiver ran
    detailed,       \* the outcome of that detail call
    unbufferized,   \* the outcome of the unbufferize call
    viewed,         \* what reading msg.contents last returned
    reprojected     \* the instance rebuilt from the re-encoded contents

vars == <<given, msg, sent, wire, proto, decoder, detailed, unbufferized,
          viewed, reprojected>>

(***************************************************************************)
(* Bounds of the value universe.                                           *)
(***************************************************************************)
\* object identifiers are 1..MaxId
MaxId == 2
\* how many elements may be appended at the tail of an encoding in flight
MaxExtra == 1

(***************************************************************************)
(* Python values.  A value is a record tagged by its Python type in k.     *)
(***************************************************************************)
None == [k |-> "NoneType"]
Int(n) == [k |-> "int", n |-> n]
Str(s) == [k |-> "str", s |-> s]
Tuple(items) == [k |-> "tuple", items |-> items]
Dict(keys, vals) == [k |-> "dict", keys |-> keys, vals |-> vals]

\* "no object": a variable that holds nothing yet
Nil == [nil |-> TRUE]

\* Outcome of a call: it returns a value or raises an exception.
Ret(v) == [returned |-> v]
Raise(e) == [raised |-> e]
IsRet(o) == DOMAIN o = {"returned"}
IsRaised(o) == DOMAIN o = {"raised"}

Ids == {Int(i) : i \in 1..MaxId}
IdTuples == {Tuple(<<>>)} \cup {Tuple(<<i>>) : i \in Ids}
Names == {Str("add")}
Targets == {None} \cup {Int(1)}
Kwargs == {Dict(<<>>, <<>>), Dict(<<"dim">>, <<Int(1)>>)}
CommandNames == {Str("run_plan")}
\* (args_tuple, kwargs_map): the usual message of a named command
CommandArgs == {Tuple(<<a, kw>>) : a \in IdTuples, kw \in Kwargs}
\* payloads of the base Message and of the six payload-wrapping variants
Payloads == {None, Str("tensor")} \cup Ids \cup {Tuple(<<Int(1), Str("#tag")>>)}

(***************************************************************************)
(* ComputationAction (syft/execution/computation.py): the action           *)
(* descriptor that CommandMessage owns.                                    *)
(***************************************************************************)
ComputationAction(name, target, args_, kwargs_, return_ids) ==
    [k |-> "ComputationAction", name |-> name, target |-> target,
     args |-> args_, kwargs |-> kwargs_, return_ids |-> return_ids]

Actions ==
    {ComputationAction(n, t, a, kw, r) :
        n \in Names, t \in Targets, a \in IdTuples, kw \in Kwargs, r \in IdTuples}

(***************************************************************************)
(* The Generic Value Codec, sy.serde.msgpack.serde._simplify / _detail.    *)
(* The simplified form of a value is a record tagged by a type code;       *)
(* containers and actions are simplified recursively.                      *)
(***************************************************************************)
RECURSIVE serde_simplify(_)
serde_simplify(v) ==
    CASE v.k = "NoneType" -> [code |-> "NoneType"]
      [] v.k = "int" -> [code |-> "int", num |-> v.n]
      [] v.k = "str" -> [code |-> "str", utf8 |-> v.s]
      [] v.k = "tuple" ->
            [code |-> "tuple",
             elems |-> [i \in DOMAIN v.items |-> serde_simplify(v.items[i])]]
      [] v.k = "dict" ->
            [code |-> "dict", dkeys |-> v.keys,
             dvals |-> [i \in DOMAIN v.vals |-> serde_simplify(v.vals[i])]]
      [] v.k = "ComputationAction" ->
            [code |-> "ComputationAction",
             attrs |-> <<serde_simplify(v.name), serde_simplify(v.target),
                         serde_simplify(v.args), serde_simplify(v.kwargs),
                         serde_simplify(v.return_ids)>>]

\* a wire element whose type code the codec cannot resolve
Garbage == [code |-> "?"]

KnownCodes == {"NoneType", "int", "str", "tuple", "dict", "ComputationAction"}

RECURSIVE serde_rebuild(_)
serde_rebuild(x) ==
    CASE x.code = "NoneType" -> None
      [] x.code = "int" -> Int(x.num)
      [] x.code = "str" -> Str(x.utf8)
      [] x.code = "tuple" ->
            Tuple([i \in DOMAIN x.elems |-> serde_rebuild(x.elems[i])])
      [] x.code = "dict" ->
            Dict(x.dkeys, [i \in DOMAIN x.dvals |-> serde_rebuild(x.dvals[i])])
      [] x.code = "ComputationAction" ->
            ComputationAction(serde_rebuild(x.attrs[1]), serde_rebuild(x.attrs[2]),
                              serde_rebuild(x.attrs[3]), serde_rebuild(x.attrs[4]),
                              serde_rebuild(x.attrs[5]))

\* _detail: the value, or a DecodeError when the type code is unknown
serde_detail(x) ==
    IF x.code \in KnownCodes THEN Ret(serde_rebuild(x)) ELSE Raise("DecodeError")


(***************************************************************************)
(* The Structured Schema Codec, sy.serde.protobuf.serde._bufferize /       *)
(* _unbufferize and ComputationAction.bufferize / unbufferize.  A schema   *)
(* message is a record tagged by its schema type.                          *)
(***************************************************************************)
RECURSIVE serde_bufferize(_)
serde_bufferize(v) ==
    CASE v.k = "NoneType" -> [schema |-> "Empty"]
      [] v.k = "int" -> [schema |-> "Id", id_int |-> v.n]
      [] v.k = "str" -> [schema |-> "String", str_val |-> v.s]
      [] v.k = "tuple" ->
            [schema |-> "Tuple",
             repeated |-> [i \in DOMAIN v.items |-> serde_bufferize(v.items[i])]]
      [] v.k = "dict" ->
            [schema |-> "Map", map_keys |-> v.keys,
             map_vals |-> [i \in DOMAIN v.vals |-> serde_bufferize(v.vals[i])]]

RECURSIVE serde_unbufferize(_)
serde_unbufferize(b) ==
    CASE b.schema = "Empty" -> None
      [] b.schema = "Id" -> Int(b.id_int)
      [] b.schema = "String" -> Str(b.str_val)
      [] b.schema = "Tuple" ->
            Tuple([i \in DOMAIN b.repeated |-> serde_unbufferize(b.repeated[i])])
      [] b.schema = "Map" ->
            Dict(b.map_keys,
                 [i \in DOMAIN b.map_vals |-> serde_unbufferize(b.map_vals[i])])

ComputationAction_bufferize(action) ==
    [schema |-> "ComputationActionPB",
     command |-> serde_bufferize(action.name),
     target_pb |-> serde_bufferize(action.target),
     args_pb |-> serde_bufferize(action.args),
     kwargs_pb |-> serde_bufferize(action.kwargs),
     return_ids_pb |-> serde_bufferize(action.return_ids)]

ComputationAction_unbufferize(b) ==
    ComputationAction(serde_unbufferize(b.command), serde_unbufferize(b.target_pb),
                      serde_unbufferize(b.args_pb), serde_unbufferize(b.kwargs_pb),
                      serde_unbufferize(b.return_ids_pb))

(***************************************************************************)
(* class Message.  An instance is a record of its class and its instance   *)
(* attributes; _contents is an attribute only when __init__ set it.        *)
(***************************************************************************)
SimpleClasses ==
    {"ObjectMessage", "ObjectRequestMessage", "IsNoneMessage", "GetShapeMessage",
     "ForceObjectDeleteMessage", "SearchMessage"}
NamedClasses == {"PlanCommandMessage", "ExecuteWorkerFunctionMessage"}
Classes == {"Message", "CommandMessage"} \cup SimpleClasses \cup NamedClasses

\* Message.__init__ without the "is not None" test: _contents is always set
Message_init_AlwaysStores(cls, contents) ==
    [cls |-> cls, _contents |-> contents]

\* Message.__init__ run on a new instance of class cls
Message_init(cls, contents) ==
    IF contents # None
      THEN [cls |-> cls, _contents |-> contents]
      ELSE [cls |-> cls]

\* Message.contents with the stored payload never returned
Message_contents_AlwaysNone(self) == None

\* the property Message.contents
Message_contents(self) ==
    IF "_contents" \in DOMAIN self THEN self._contents ELSE None


(***************************************************************************)
(* class CommandMessage                                                    *)
(***************************************************************************)
CommandMessage_init(name, target, args_, kwargs_, return_ids) ==
    ("action" :> ComputationAction(name, target, args_, kwargs_, return_ids))
        @@ Message_init("CommandMessage", None)

CommandMessage_name(self) == self.action.name
CommandMessage_target(self) == self.action.target
CommandMessage_args(self) == self.action.args
CommandMessage_kwargs(self) == self.action.kwargs
CommandMessage_return_ids(self) == self.action.return_ids

\* CommandMessage.contents with return_ids inside the first element
CommandMessage_contents_Flat(self) ==
    Tuple(<<self.action.name, self.action.target, self.action.args,
            self.action.kwargs, self.action.return_ids>>)

CommandMessage_contents(self) ==
    LET message == Tuple(<<self.action.name, self.action.target,
                           self.action.args, self.action.kwargs>>)
    IN  Tuple(<<message, self.action.return_ids>>)

(***************************************************************************)
(* The six payload-wrapping classes: __init__ is Message.__init__.         *)
(***************************************************************************)
ObjectMessage_init(contents) == Message_init("ObjectMessage", contents)
ObjectRequestMessage_init(contents) == Message_init("ObjectRequestMessage", contents)
IsNoneMessage_init(contents) == Message_init("IsNoneMessage", contents)
GetShapeMessage_init(contents) == Message_init("GetShapeMessage", contents)
ForceObjectDeleteMessage_init(contents) ==
    Message_init("ForceObjectDeleteMessage", contents)
SearchMessage_init(contents) == Message_init("SearchMessage", contents)

(***************************************************************************)
(* class PlanCommandMessage, class ExecuteWorkerFunctionMessage            *)
(***************************************************************************)
PlanCommandMessage_init(command_name, message) ==
    ("command_name" :> command_name) @@ ("message" :> message)
        @@ Message_init("PlanCommandMessage", None)

PlanCommandMessage_contents(self) == Tuple(<<self.command_name, self.message>>)

ExecuteWorkerFunctionMessage_init(command_name, message) ==
    ("command_name" :> command_name) @@ ("message" :> message)
        @@ Message_init("ExecuteWorkerFunctionMessage", None)

\* ExecuteWorkerFunctionMessage.contents with the pair in reverse order
ExecuteWorkerFunctionMessage_contents_Swapped(self) ==
    Tuple(<<self.message, self.command_name>>)

ExecuteWorkerFunctionMessage_contents(self) ==
    Tuple(<<self.command_name, self.message>>)

\* ptr.contents: the property of ptr's class (overridden by three classes)
contents(self) ==
    CASE self.cls = "CommandMessage" -> CommandMessage_contents(self)
      [] self.cls = "PlanCommandMessage" -> PlanCommandMessage_contents(self)
      [] self.cls = "ExecuteWorkerFunctionMessage" ->
            ExecuteWorkerFunctionMessage_contents(self)
      [] OTHER -> Message_contents(self)

(***************************************************************************)
(* simplify: the generic encoders.  The wire tuple is a sequence of        *)
(* simplified values.                                                      *)
(***************************************************************************)
Message_simplify(ptr) == <<serde_simplify(contents(ptr))>>

CommandMessage_simplify(ptr) == <<serde_simplify(ptr.action)>>

\* PlanCommandMessage.simplify emitting message before command_name
PlanCommandMessage_simplify_Swapped(ptr) ==
    <<serde_simplify(ptr.message), serde_simplify(ptr.command_name)>>

PlanCommandMessage_simplify(ptr) ==
    <<serde_simplify(ptr.command_name), serde_simplify(ptr.message)>>

ExecuteWorkerFunctionMessage_simplify(ptr) ==
    <<serde_simplify(ptr.command_name), serde_simplify(ptr.message)>>

\* the simplify of ptr's class; the six payload-wrapping classes inherit Message's
simplify(ptr) ==
    CASE ptr.cls = "CommandMessage" -> CommandMessage_simplify(ptr)
      [] ptr.cls = "PlanCommandMessage" -> PlanCommandMessage_simplify(ptr)
      [] ptr.cls = "ExecuteWorkerFunctionMessage" ->
            ExecuteWorkerFunctionMessage_simplify(ptr)
      [] OTHER -> Message_simplify(ptr)

(***************************************************************************)
(* detail: the generic decoders.  msg_tuple[0] raises IndexError on an     *)
(* empty tuple, attribute access on a value without the attribute raises   *)
(* AttributeError, unpacking into two names raises ValueError unless the   *)
(* tuple has two elements, and an exception of the codec is not caught.    *)
(***************************************************************************)
\* Message.detail with the codec's _detail forgotten: it wraps the raw element
Message_detail_Undetailed(msg_tuple) ==
    IF Len(msg_tuple) = 0 THEN Raise("IndexError")
    ELSE Ret(Message_init("Message", msg_tuple[1]))

Message_detail(msg_tuple) ==
    IF Len(msg_tuple) = 0 THEN Raise("IndexError")
    ELSE LET d == serde_detail(msg_tuple[1])
         IN  IF IsRaised(d) THEN d ELSE Ret(Message_init("Message", d.returned))

\* CommandMessage.detail passing args and kwargs in each other's place
CommandMessage_detail_ArgsSwapped(msg_tuple) ==
    IF Len(msg_tuple) = 0 THEN Raise("IndexError")
    ELSE LET d == serde_detail(msg_tuple[1])
         IN  IF IsRaised(d) THEN d
             ELSE IF d.returned.k # "ComputationAction" THEN Raise("AttributeError")
             ELSE LET det == d.returned
                  IN  Ret(CommandMessage_init(det.name, det.target, det.kwargs,
                                              det.args, det.return_ids))

\* CommandMessage.detail answering malformed data with an empty command
CommandMessage_detail_Lenient(msg_tuple) ==
    LET empty == CommandMessage_init(None, None, Tuple(<<>>), Dict(<<>>, <<>>),
                                     Tuple(<<>>))
    IN  IF Len(msg_tuple) = 0 THEN Ret(empty)
        ELSE LET d == serde_detail(msg_tuple[1])
             IN  IF IsRaised(d) THEN Ret(empty)
                 ELSE IF d.returned.k # "ComputationAction" THEN Ret(empty)
                 ELSE LET det == d.returned
                      IN  Ret(CommandMessage_init(det.name, det.target, det.args,
                                                  det.kwargs, det.return_ids))

CommandMessage_detail(msg_tuple) ==
    IF Len(msg_tuple) = 0 THEN Raise("IndexError")
    ELSE LET d == serde_detail(msg_tuple[1])
         IN  IF IsRaised(d) THEN d
             ELSE IF d.returned.k # "ComputationAction" THEN Raise("AttributeError")
             ELSE LET det == d.returned
                  IN  Ret(CommandMessage_init(det.name, det.target, det.args,
                                              det.kwargs, det.return_ids))

\* ObjectMessage.detail reading the last element, msg_tuple[-1]
ObjectMessage_detail_LastElement(msg_tuple) ==
    IF Len(msg_tuple) = 0 THEN Raise("IndexError")
    ELSE LET d == serde_detail(msg_tuple[Len(msg_tuple)])
         IN  IF IsRaised(d) THEN d ELSE Ret(ObjectMessage_init(d.returned))

ObjectMessage_detail(msg_tuple) ==
    IF Len(msg_tuple) = 0 THEN Raise("IndexError")
    ELSE LET d == serde_detail(msg_tuple[1])
         IN  IF IsRaised(d) THEN d ELSE Ret(ObjectMessage_init(d.returned))

ObjectRequestMessage_detail(msg_tuple) ==
    IF Len(msg_tuple) = 0 THEN Raise("IndexError")
    ELSE LET d == serde_detail(msg_tuple[1])
         IN  IF IsRaised(d) THEN d ELSE Ret(ObjectRequestMessage_init(d.returned))

\* IsNoneMessage.detail catching the codec's exception
IsNoneMessage_detail_Catching(msg_tuple) ==
    IF Len(msg_tuple) = 0 THEN Raise("IndexError")
    ELSE LET d == serde_detail(msg_tuple[1])
         IN  IF IsRaised(d) THEN Ret(IsNoneMessage_init(None))
             ELSE Ret(IsNoneMessage_init(d.returned))

IsNoneMessage_detail(msg_tuple) ==
    IF Len(msg_tuple) = 0 THEN Raise("IndexError")
    ELSE LET d == serde_detail(msg_tuple[1])
         IN  IF IsRaised(d) THEN d ELSE Ret(IsNoneMessage_init(d.returned))

GetShapeMessage_detail(msg_tuple) ==
    IF Len(msg_tuple) = 0 THEN Raise("IndexError")
    ELSE LET d == serde_detail(msg_tuple[1])
         IN  IF IsRaised(d) THEN d ELSE Ret(GetShapeMessage_init(d.returned))

ForceObjectDeleteMessage_detail(msg_tuple) ==
    IF Len(msg_tuple) = 0 THEN Raise("IndexError")
    ELSE LET d == serde_detail(msg_tuple[1])
         IN  IF IsRaised(d) THEN d ELSE Ret(ForceObjectDeleteMessage_init(d.returned))

SearchMessage_detail(msg_tuple) ==
    IF Len(msg_tuple) = 0 THEN Raise("IndexError")
    ELSE LET d == serde_detail(msg_tuple[1])
         IN  IF IsRaised(d) THEN d ELSE Ret(SearchMessage_init(d.returned))

PlanCommandMessage_detail(msg_tuple) ==
    IF Len(msg_tuple) # 2 THEN Raise("ValueError")
    ELSE LET command_name == serde_detail(msg_tuple[1])
             message == serde_detail(msg_tuple[2])
         IN  IF IsRaised(command_name) THEN command_name
             ELSE IF IsRaised(message) THEN message
             ELSE Ret(PlanCommandMessage_init(command_name.returned, message.returned))

\* ExecuteWorkerFunctionMessage.detail passing the two fields in reverse
ExecuteWorkerFunctionMessage_detail_Reversed(msg_tuple) ==
    IF Len(msg_tuple) # 2 THEN Raise("ValueError")
    ELSE LET command_name == serde_detail(msg_tuple[1])
             message == serde_detail(msg_tuple[2])
         IN  IF IsRaised(command_name) THEN command_name
             ELSE IF IsRaised(message) THEN message
             ELSE Ret(ExecuteWorkerFunctionMessage_init(message.returned,
                                                        command_name.returned))

ExecuteWorkerFunctionMessage_detail(msg_tuple) ==
    IF Len(msg_tuple) # 2 THEN Raise("ValueError")
    ELSE LET command_name == serde_detail(msg_tuple[1])
             message == serde_detail(msg_tuple[2])
         IN  IF IsRaised(command_name) THEN command_name
             ELSE IF IsRaised(message) THEN message
             ELSE Ret(ExecuteWorkerFunctionMessage_init(command_name.returned,
                                                        message.returned))

\* the detail of class cls, as the receiver picks it
detail(cls, msg_tuple) ==
    CASE cls = "Message" -> Message_detail(msg_tuple)
      [] cls = "CommandMessage" -> CommandMessage_detail(msg_tuple)
      [] cls = "ObjectMessage" -> ObjectMessage_detail(msg_tuple)
      [] cls = "ObjectRequestMessage" -> ObjectRequestMessage_detail(msg_tuple)
      [] cls = "IsNoneMessage" -> IsNoneMessage_detail(msg_tuple)
      [] cls = "GetShapeMessage" -> GetShapeMessage_detail(msg_tuple)
      [] cls = "ForceObjectDeleteMessage" -> ForceObjectDeleteMessage_detail(msg_tuple)
      [] cls = "SearchMessage" -> SearchMessage_detail(msg_tuple)
      [] cls = "PlanCommandMessage" -> PlanCommandMessage_detail(msg_tuple)
      [] cls = "ExecuteWorkerFunctionMessage" ->
            ExecuteWorkerFunctionMessage_detail(msg_tuple)

(***************************************************************************)
(* bufferize / unbufferize: the structured encoders and decoders of        *)
(* CommandMessage and ObjectMessage.                                       *)
(***************************************************************************)
CommandMessage_bufferize(action_message) ==
    [schema |-> "CommandMessagePB",
     action |-> ComputationAction_bufferize(action_message.action)]

\* CommandMessage.unbufferize leaving return_ids out
CommandMessage_unbufferize_NoReturnIds(protobuf_obj) ==
    LET det == ComputationAction_unbufferize(protobuf_obj.action)
    IN  CommandMessage_init(det.name, det.target, det.args, det.kwargs, Tuple(<<>>))

CommandMessage_unbufferize(protobuf_obj) ==
    LET det == ComputationAction_unbufferize(protobuf_obj.action)
    IN  CommandMessage_init(det.name, det.target, det.args, det.kwargs,
                            det.return_ids)

ObjectMessage_bufferize(message) ==
    [schema |-> "ObjectMessagePB", tensor |-> serde_bufferize(contents(message))]

\* ObjectMessage.unbufferize building a base Message
ObjectMessage_unbufferize_AsBase(protobuf_obj) ==
    Message_init("Message", serde_unbufferize(protobuf_obj.tensor))

ObjectMessage_unbufferize(protobuf_obj) ==
    ObjectMessage_init(serde_unbufferize(protobuf_obj.tensor))

BufferizedClasses == {"CommandMessage", "ObjectMessage"}

\* the bufferize of message's class
bufferize(message) ==
    CASE message.cls = "CommandMessage" -> CommandMessage_bufferize(message)
      [] message.cls = "ObjectMessage" -> ObjectMessage_bufferize(message)

\* the unbufferize registered for the schema type of protobuf_obj
unbufferize(protobuf_obj) ==
    CASE protobuf_obj.schema = "CommandMessagePB" ->
            CommandMessage_unbufferize(protobuf_obj)
      [] protobuf_obj.schema = "ObjectMessagePB" ->
            ObjectMessage_unbufferize(protobuf_obj)


(***************************************************************************)
(* The state machine.                                                      *)
(***************************************************************************)
\* a Python tuple held in a variable
Tup(t) == [tuple |-> t]

\* the constructor of class cls applied to the argument list a
construct(cls, a) ==
    CASE cls = "Message" ->
            \* the contents parameter defaults to None
            Message_init("Message", IF Len(a) = 0 THEN None ELSE a[1])
      [] cls = "CommandMessage" -> CommandMessage_init(a[1], a[2], a[3], a[4], a[5])
      [] cls = "ObjectMessage" -> ObjectMessage_init(a[1])
      [] cls = "ObjectRequestMessage" -> ObjectRequestMessage_init(a[1])
      [] cls = "IsNoneMessage" -> IsNoneMessage_init(a[1])
      [] cls = "GetShapeMessage" -> GetShapeMessage_init(a[1])
      [] cls = "ForceObjectDeleteMessage" -> ForceObjectDeleteMessage_init(a[1])
      [] cls = "SearchMessage" -> SearchMessage_init(a[1])
      [] cls = "PlanCommandMessage" -> PlanCommandMessage_init(a[1], a[2])
      [] cls = "ExecuteWorkerFunctionMessage" ->
            ExecuteWorkerFunctionMessage_init(a[1], a[2])

\* the argument lists a caller passes to the constructor of cls
ArgLists(cls) ==
    CASE cls = "CommandMessage" ->
            {<<n, t, a, kw, r>> :
                n \in Names, t \in Targets, a \in IdTuples, kw \in Kwargs,
                r \in IdTuples}
      [] cls \in NamedClasses -> {<<c, m>> : c \in CommandNames, m \in CommandArgs}
      [] cls = "Message" -> {<<>>} \cup {<<p>> : p \in Payloads}
      [] OTHER -> {<<p>> : p \in Payloads}

\* elements that may follow a valid encoding on the wire
ExtraElements == {serde_simplify(None), Garbage}

Init ==
    /\ given = Nil
    /\ msg = Nil
    /\ sent = Nil
    /\ wire = Nil
    /\ proto = Nil
    /\ decoder = "none"
    /\ detailed = Nil
    /\ unbufferized = Nil
    /\ viewed = Nil
    /\ reprojected = Nil

\* the sender constructs a message
Construct ==
    /\ msg = Nil
    /\ \E cls \in Classes : \E a \in ArgLists(cls) :
          /\ given' = Tup(a)
          /\ msg' = construct(cls, a)
    /\ UNCHANGED <<sent, wire, proto, decoder, detailed, unbufferized,
                 viewed, reprojected>>

\* simplify that also caches the contents it read in the instance
Simplify_Caching ==
    /\ msg # Nil
    /\ sent = Nil
    /\ sent' = Tup(simplify(msg))
    /\ wire' = sent'
    /\ msg' = ("_contents" :> contents(msg)) @@ msg
    /\ UNCHANGED <<given, proto, decoder, detailed, unbufferized,
                   viewed, reprojected>>

\* the sender encodes it with the generic codec
Simplify ==
    /\ msg # Nil
    /\ sent = Nil
    /\ sent' = Tup(simplify(msg))
    /\ wire' = sent'
    /\ UNCHANGED <<given, msg, proto, decoder, detailed, unbufferized,
                 viewed, reprojected>>

\* the tuple that reaches the decoder has extra elements at its tail
AppendTail ==
    /\ wire # Nil
    /\ detailed = Nil
    /\ Len(wire.tuple) < Len(sent.tuple) + MaxExtra
    /\ \E e \in ExtraElements : wire' = Tup(Append(wire.tuple, e))
    /\ UNCHANGED <<given, msg, sent, proto, decoder, detailed, unbufferized,
                 viewed, reprojected>>

\* the tuple that reaches the decoder lacks its last element
DropTail ==
    /\ wire # Nil
    /\ detailed = Nil
    /\ Len(wire.tuple) >= 1
    /\ wire' = Tup(SubSeq(wire.tuple, 1, Len(wire.tuple) - 1))
    /\ UNCHANGED <<given, msg, sent, proto, decoder, detailed, unbufferized,
                 viewed, reprojected>>

\* position 0 of the tuple that reaches the decoder is not decodable
Corrupt ==
    /\ wire # Nil
    /\ detailed = Nil
    /\ Len(wire.tuple) >= 1
    /\ wire.tuple[1] # Garbage
    /\ wire' = Tup([wire.tuple EXCEPT ![1] = Garbage])
    /\ UNCHANGED <<given, msg, sent, proto, decoder, detailed, unbufferized,
                 viewed, reprojected>>

\* the receiver runs the detail of some class on the tuple
Detail ==
    /\ wire # Nil
    /\ detailed = Nil
    /\ \E cls \in Classes :
          /\ decoder' = cls
          /\ detailed' = detail(cls, wire.tuple)
    /\ UNCHANGED <<given, msg, sent, wire, proto, unbufferized,
                 viewed, reprojected>>

\* the sender encodes the message with the structured codec
Bufferize ==
    /\ msg # Nil
    /\ msg.cls \in BufferizedClasses
    /\ proto = Nil
    /\ proto' = bufferize(msg)
    /\ UNCHANGED <<given, msg, sent, wire, decoder, detailed, unbufferized,
                 viewed, reprojected>>

\* the receiver decodes the schema message
Unbufferize ==
    /\ proto # Nil
    /\ unbufferized = Nil
    /\ unbufferized' = Ret(unbufferize(proto))
    /\ UNCHANGED <<given, msg, sent, wire, proto, decoder, detailed,
                 viewed, reprojected>>

\* a caller reads msg.contents
Contents ==
    /\ msg # Nil
    /\ viewed' = Ret(contents(msg))
    /\ UNCHANGED <<given, msg, sent, wire, proto, decoder, detailed, unbufferized,
                   reprojected>>

\* the constructor of class cls applied to the fields a contents value c holds
from_contents(cls, c) ==
    CASE cls = "CommandMessage" ->
            construct(cls, <<c.items[1].items[1], c.items[1].items[2],
                             c.items[1].items[3], c.items[1].items[4], c.items[2]>>)
      [] cls \in NamedClasses -> construct(cls, <<c.items[1], c.items[2]>>)
      [] OTHER -> construct(cls, <<c>>)

\* the contents read are passed through the generic codec and an instance of
\* the same class is built from what comes back
Reproject ==
    /\ viewed # Nil
    /\ reprojected = Nil
    /\ LET d == serde_detail(serde_simplify(viewed.returned))
       IN  reprojected' =
              IF IsRaised(d) THEN d ELSE Ret(from_contents(msg.cls, d.returned))
    /\ UNCHANGED <<given, msg, sent, wire, proto, decoder, detailed, unbufferized,
                   viewed>>

\* the exchange is over and every object of it is discarded
Discard ==
    /\ detailed # Nil \/ unbufferized # Nil
    /\ given' = Nil
    /\ msg' = Nil
    /\ sent' = Nil
    /\ wire' = Nil
    /\ proto' = Nil
    /\ decoder' = "none"
    /\ detailed' = Nil
    /\ unbufferized' = Nil
    /\ viewed' = Nil
    /\ reprojected' = Nil

Next ==
    \/ Construct
    \/ Simplify
    \/ AppendTail
    \/ DropTail
    \/ Corrupt
    \/ Detail
    \/ Bufferize
    \/ Unbufferize
    \/ Contents
    \/ Reproject
    \/ Discard

Spec == Init /\ [][Next]_vars


(***************************************************************************)
(* Properties.                                                             *)
(***************************************************************************)
NineVariants == Classes \ {"Message"}

\* the receiver decoded, with the sender's own class, the tuple exactly as sent
GenericRoundTripDone ==
    /\ detailed # Nil
    /\ wire = sent
    /\ decoder = msg.cls

\* the tuple that reached the decoder is the one sent plus elements at its tail
TailAppended ==
    /\ wire # Nil
    /\ Len(wire.tuple) > Len(sent.tuple)
    /\ SubSeq(wire.tuple, 1, Len(sent.tuple)) = sent.tuple

\* the tuple that reached the decoder is the one sent minus trailing positions
TailMissing ==
    /\ wire # Nil
    /\ Len(wire.tuple) < Len(sent.tuple)
    /\ wire.tuple = SubSeq(sent.tuple, 1, Len(wire.tuple))

\* C1: for each of the nine variants, the variant's detail applied to what the
\* variant's simplify returned for construct(p) returns an instance of the same
\* variant that is field-for-field equal to construct(p).
C1_GenericRoundTrip ==
    (GenericRoundTripDone /\ msg.cls \in NineVariants) =>
        /\ IsRet(detailed)
        /\ detailed.returned.cls = msg.cls
        /\ detailed.returned = construct(msg.cls, given.tuple)

C1_Witness ==
    /\ GenericRoundTripDone
    /\ msg.cls = "CommandMessage"
    /\ given.tuple[3] # Tuple(<<>>)
    /\ given.tuple[4] # Dict(<<>>, <<>>)
    /\ IsRet(detailed)

\* C2: for CommandMessage and ObjectMessage, unbufferize applied to what
\* bufferize returned for m returns an instance of the same variant that is
\* field-for-field equal to m: the payload for ObjectMessage; name, target,
\* args, kwargs and return_ids for CommandMessage.
C2_StructuredRoundTrip ==
    unbufferized # Nil =>
        /\ IsRet(unbufferized)
        /\ unbufferized.returned.cls = msg.cls
        /\ unbufferized.returned = construct(msg.cls, given.tuple)
        /\ msg.cls = "ObjectMessage" =>
              contents(unbufferized.returned) = given.tuple[1]
        /\ msg.cls = "CommandMessage" =>
              /\ CommandMessage_name(unbufferized.returned) = given.tuple[1]
              /\ CommandMessage_target(unbufferized.returned) = given.tuple[2]
              /\ CommandMessage_args(unbufferized.returned) = given.tuple[3]
              /\ CommandMessage_kwargs(unbufferized.returned) = given.tuple[4]
              /\ CommandMessage_return_ids(unbufferized.returned) = given.tuple[5]

C2_Witness ==
    /\ unbufferized # Nil
    /\ msg.cls = "ObjectMessage"
    /\ given.tuple[1] = Tuple(<<Int(1), Str("#tag")>>)
    /\ contents(unbufferized.returned) = given.tuple[1]

\* C3: for a CommandMessage m, detail(simplify(m)) and unbufferize(bufferize(m))
\* are both CommandMessage instances whose name, target, args, kwargs and
\* return_ids are pairwise equal.
C3_CrossCodecEquivalence ==
    (GenericRoundTripDone /\ unbufferized # Nil /\ msg.cls = "CommandMessage") =>
        /\ IsRet(detailed)
        /\ IsRet(unbufferized)
        /\ detailed.returned.cls = "CommandMessage"
        /\ unbufferized.returned.cls = "CommandMessage"
        /\ CommandMessage_name(detailed.returned)
              = CommandMessage_name(unbufferized.returned)
        /\ CommandMessage_target(detailed.returned)
              = CommandMessage_target(unbufferized.returned)
        /\ CommandMessage_args(detailed.returned)
              = CommandMessage_args(unbufferized.returned)
        /\ CommandMessage_kwargs(detailed.returned)
              = CommandMessage_kwargs(unbufferized.returned)
        /\ CommandMessage_return_ids(detailed.returned)
              = CommandMessage_return_ids(unbufferized.returned)

C3_Witness ==
    /\ GenericRoundTripDone
    /\ unbufferized # Nil
    /\ msg.cls = "CommandMessage"
    /\ given.tuple[2] # None
    /\ given.tuple[5] # Tuple(<<>>)
    /\ IsRet(detailed)

\* the receiver ran one named-command class's detail on the tuple the other
\* named-command class's simplify returned
NamedMismatchDone ==
    /\ detailed # Nil
    /\ wire = sent
    /\ msg.cls \in NamedClasses
    /\ decoder \in NamedClasses
    /\ decoder # msg.cls

\* C4 as claimed: running ExecuteWorkerFunctionMessage's detail on the encoding
\* of a PlanCommandMessage (or the reverse) ends in an error; it never returns
\* an instance of the decoder's class built from the other variant's fields.
C4_MismatchRejected ==
    NamedMismatchDone => IsRaised(detailed)

\* C4 as the code has it: running one named-command class's detail on the
\* other's encoding returns an instance of the decoder's class that carries the
\* other variant's command_name and message; no error is raised.
C4_MismatchAccepted ==
    NamedMismatchDone =>
        /\ IsRet(detailed)
        /\ detailed.returned.cls = decoder
        /\ detailed.returned.command_name = given.tuple[1]
        /\ detailed.returned.message = given.tuple[2]

C4_Witness ==
    /\ NamedMismatchDone
    /\ msg.cls = "PlanCommandMessage"
    /\ decoder = "ExecuteWorkerFunctionMessage"
    /\ IsRet(detailed)
    /\ detailed.returned.cls = "ExecuteWorkerFunctionMessage"

\* CommandMessage.detail was run on an empty tuple or on a tuple whose
\* position 0 is not the encoding of an action descriptor
CommandMalformedDone ==
    /\ detailed # Nil
    /\ decoder = "CommandMessage"
    /\ \/ Len(wire.tuple) = 0
       \/ wire.tuple[1].code # "ComputationAction"

\* C5 as claimed: CommandMessage.detail on malformed or truncated wire data
\* fails with a DecodeError.
C5_MalformedIsDecodeError ==
    CommandMalformedDone => detailed = Raise("DecodeError")

\* C5 as the code has it: CommandMessage.detail on malformed or truncated wire
\* data raises and returns no CommandMessage: IndexError on an empty tuple, the
\* codec's own error when position 0 cannot be decoded, AttributeError when
\* position 0 decodes to a value that is no action descriptor.
C5_MalformedRaises ==
    CommandMalformedDone =>
        /\ IsRaised(detailed)
        /\ Len(wire.tuple) = 0 => detailed = Raise("IndexError")
        /\ (Len(wire.tuple) > 0 /\ wire.tuple[1].code \notin KnownCodes) =>
              detailed = serde_detail(wire.tuple[1])
        /\ (Len(wire.tuple) > 0 /\ wire.tuple[1].code \in KnownCodes) =>
              detailed = Raise("AttributeError")

C5_Witness ==
    /\ CommandMalformedDone
    /\ msg.cls = "CommandMessage"
    /\ Len(wire.tuple) = 0
    /\ detailed = Raise("IndexError")

\* a payload-wrapping class's detail was run on a tuple whose position 0 the
\* Generic Value Codec fails to decode
SimpleCodecFailureDone ==
    /\ detailed # Nil
    /\ decoder \in SimpleClasses
    /\ Len(wire.tuple) >= 1
    /\ IsRaised(serde_detail(wire.tuple[1]))

\* C6: for each of the six payload-wrapping variants, when the Generic Value
\* Codec fails on the embedded payload, detail fails with that same error; it
\* returns no message instance.
C6_CodecFailurePropagates ==
    SimpleCodecFailureDone =>
        /\ IsRaised(detailed)
        /\ detailed = serde_detail(wire.tuple[1])

C6_Witness ==
    /\ SimpleCodecFailureDone
    /\ decoder = "IsNoneMessage"
    /\ msg.cls = "IsNoneMessage"
    /\ IsRaised(detailed)

\* Message.detail was run on a tuple whose position 0 the codec can decode
BaseDetailDone ==
    /\ detailed # Nil
    /\ decoder = "Message"
    /\ Len(wire.tuple) >= 1
    /\ IsRet(serde_detail(wire.tuple[1]))

\* C7: Message.detail, given a tuple whose position 0 the codec can decode,
\* returns a base Message whose contents is exactly the decoded value of
\* position 0, whichever class produced the tuple.
C7_BaseEnvelopeFallback ==
    BaseDetailDone =>
        /\ IsRet(detailed)
        /\ detailed.returned.cls = "Message"
        /\ contents(detailed.returned) = serde_detail(wire.tuple[1]).returned

C7_Witness ==
    /\ BaseDetailDone
    /\ msg.cls = "CommandMessage"
    /\ wire = sent
    /\ IsRet(detailed)
    /\ contents(detailed.returned) = msg.action

\* C8: for a CommandMessage constructed from (name, target, args, kwargs,
\* return_ids) the five accessors return the constructor arguments, contents
\* is the pair ((name, target, args, kwargs), return_ids) of them, and after a
\* generic encode and decode the accessors still return them.
C8_CommandProjection ==
    (msg # Nil /\ msg.cls = "CommandMessage") =>
        /\ CommandMessage_name(msg) = given.tuple[1]
        /\ CommandMessage_target(msg) = given.tuple[2]
        /\ CommandMessage_args(msg) = given.tuple[3]
        /\ CommandMessage_kwargs(msg) = given.tuple[4]
        /\ CommandMessage_return_ids(msg) = given.tuple[5]
        /\ contents(msg) =
              Tuple(<<Tuple(<<given.tuple[1], given.tuple[2], given.tuple[3],
                              given.tuple[4]>>),
                      given.tuple[5]>>)
        /\ GenericRoundTripDone =>
              /\ IsRet(detailed)
              /\ CommandMessage_name(detailed.returned) = given.tuple[1]
              /\ CommandMessage_target(detailed.returned) = given.tuple[2]
              /\ CommandMessage_args(detailed.returned) = given.tuple[3]
              /\ CommandMessage_kwargs(detailed.returned) = given.tuple[4]
              /\ CommandMessage_return_ids(detailed.returned) = given.tuple[5]

C8_Witness ==
    /\ msg # Nil
    /\ msg.cls = "CommandMessage"
    /\ GenericRoundTripDone
    /\ CommandMessage_name(detailed.returned) = Str("add")
    /\ CommandMessage_target(detailed.returned) = Int(1)
    /\ CommandMessage_return_ids(detailed.returned) = Tuple(<<Int(2)>>)

\* C9: for the two named-command variants simplify returns exactly two
\* elements, the encoded command_name at position 0 and the encoded message at
\* position 1; detail accepts exactly two elements and rebuilds the variant
\* with position 0 as command_name and position 1 as message, so contents of
\* the decoded instance is (command_name, message) of the original.
C9_NamedWireShape ==
    /\ (sent # Nil /\ msg.cls \in NamedClasses) =>
          /\ Len(sent.tuple) = 2
          /\ sent.tuple[1] = serde_simplify(given.tuple[1])
          /\ sent.tuple[2] = serde_simplify(given.tuple[2])
    /\ (GenericRoundTripDone /\ msg.cls \in NamedClasses) =>
          /\ IsRet(detailed)
          /\ detailed.returned.cls = msg.cls
          /\ detailed.returned.command_name = given.tuple[1]
          /\ detailed.returned.message = given.tuple[2]
          /\ contents(detailed.returned) = Tuple(<<given.tuple[1], given.tuple[2]>>)
    /\ (detailed # Nil /\ decoder \in NamedClasses /\ Len(wire.tuple) # 2) =>
          detailed = Raise("ValueError")

C9_Witness ==
    /\ GenericRoundTripDone
    /\ msg.cls = "PlanCommandMessage"
    /\ contents(detailed.returned) =
          Tuple(<<Str("run_plan"),
                  Tuple(<<Tuple(<<Int(1)>>), Dict(<<"dim">>, <<Int(1)>>)>>)>>)

\* the receiver ran the sender's own class's detail
OwnDecoderDone ==
    /\ detailed # Nil
    /\ decoder = msg.cls

\* C10 as claimed: every generic encoding is non-empty, a valid encoding with
\* extra elements at its tail decodes to the same message as without them, and
\* an encoding whose trailing positions are missing is decoded with defaults
\* instead of failing.
C10_TailExtensible ==
    /\ sent # Nil => Len(sent.tuple) >= 1
    /\ (OwnDecoderDone /\ TailAppended) => detailed = Ret(msg)
    /\ (OwnDecoderDone /\ TailMissing) => IsRet(detailed)

\* C10 as the code has it: every generic encoding is non-empty; the detail of
\* Message, CommandMessage and the six payload-wrapping variants reads only
\* position 0, so extra tail elements do not change its result; the detail of
\* the two named-command variants raises ValueError unless the tuple has
\* exactly two elements; no detail supplies a default for a missing position,
\* it raises (IndexError on an empty tuple, ValueError for the named commands).
C10_PositionZeroOnly ==
    /\ sent # Nil => Len(sent.tuple) >= 1
    /\ (OwnDecoderDone /\ TailAppended /\ decoder \notin NamedClasses) =>
          detailed = Ret(msg)
    /\ (OwnDecoderDone /\ TailAppended /\ decoder \in NamedClasses) =>
          detailed = Raise("ValueError")
    /\ (OwnDecoderDone /\ TailMissing /\ decoder \notin NamedClasses) =>
          detailed = Raise("IndexError")
    /\ (OwnDecoderDone /\ TailMissing /\ decoder \in NamedClasses) =>
          detailed = Raise("ValueError")

C10_Witness ==
    /\ OwnDecoderDone
    /\ TailAppended
    /\ decoder = "PlanCommandMessage"
    /\ detailed = Raise("ValueError")


\* C11: for each of the six payload-wrapping variants constructed from payload
\* p, contents returns p unchanged; for a base Message constructed with no
\* payload contents returns None; reading contents never raises for a
\* constructed instance of any variant; and after a generic encode and decode
\* of a payload-wrapping variant contents is still p.
C11_SimpleContents ==
    /\ (viewed # Nil /\ msg.cls \in SimpleClasses) => viewed = Ret(given.tuple[1])
    /\ (viewed # Nil /\ msg.cls = "Message" /\ given.tuple = <<>>) =>
          viewed = Ret(None)
    /\ viewed # Nil => IsRet(viewed)
    /\ (GenericRoundTripDone /\ msg.cls \in SimpleClasses) =>
          /\ IsRet(detailed)
          /\ contents(detailed.returned) = given.tuple[1]

C11_Witness ==
    /\ viewed # Nil
    /\ GenericRoundTripDone
    /\ msg.cls = "IsNoneMessage"
    /\ given.tuple[1] = Int(2)
    /\ viewed = Ret(Int(2))
    /\ contents(detailed.returned) = Int(2)


\* C12: for every variant and every constructed instance m, passing
\* m.contents through the Generic Value Codec's simplify and detail and
\* building an instance of the same variant from the result gives an instance
\* whose contents equals m.contents; and what a variant's own simplify encodes
\* carries the same information: decoding it with the variant's detail gives
\* an instance with the same contents, although CommandMessage encodes its
\* action descriptor and not its contents pair.
C12_ContentsProjection ==
    /\ reprojected # Nil =>
          /\ IsRet(reprojected)
          /\ reprojected.returned.cls = msg.cls
          /\ contents(reprojected.returned) = viewed.returned
    /\ (GenericRoundTripDone /\ viewed # Nil) =>
          /\ IsRet(detailed)
          /\ contents(detailed.returned) = viewed.returned
    /\ (sent # Nil /\ viewed # Nil /\ msg.cls = "CommandMessage") =>
          /\ sent.tuple = <<serde_simplify(msg.action)>>
          /\ sent.tuple # <<serde_simplify(viewed.returned)>>

C12_Witness ==
    /\ reprojected # Nil
    /\ GenericRoundTripDone
    /\ msg.cls = "CommandMessage"
    /\ given.tuple[5] # Tuple(<<>>)
    /\ contents(reprojected.returned) = viewed.returned
    /\ contents(detailed.returned) = viewed.returned


\* C13: reading contents, simplify and bufferize leave every field of the
\* message instance as construction set it; a decode call (detail,
\* unbufferize) produces a new instance and changes neither its encoded input
\* nor the existing message; no step of this layer changes an object another
\* step produced.
C13_EncodingOnlyReads ==
    /\ [](msg # Nil => msg = construct(msg.cls, given.tuple))
    /\ [][/\ (msg # Nil /\ msg' # Nil) => (msg' = msg /\ given' = given)
          /\ (detailed = Nil /\ detailed' # Nil) =>
                (wire' = wire /\ sent' = sent /\ msg' = msg /\ proto' = proto)
          /\ (unbufferized = Nil /\ unbufferized' # Nil) =>
                (proto' = proto /\ msg' = msg /\ wire' = wire)
          /\ (sent # Nil /\ sent' # Nil) => sent' = sent
          /\ (proto # Nil /\ proto' # Nil) => proto' = proto
          /\ (detailed # Nil /\ detailed' # Nil) => detailed' = detailed
          /\ (unbufferized # Nil /\ unbufferized' # Nil) =>
                unbufferized' = unbufferized
         ]_vars

C13_Witness ==
    /\ viewed # Nil
    /\ sent # Nil
    /\ proto # Nil
    /\ detailed # Nil
    /\ unbufferized # Nil
    /\ msg.cls = "CommandMessage"
    /\ msg = construct(msg.cls, given.tuple)


\* the classes whose contents is the stored payload
PayloadClasses == {"Message"} \cup SimpleClasses

\* a base Message or payload-wrapping variant was constructed with payload None
NonePayloadGiven ==
    /\ msg # Nil
    /\ msg.cls \in PayloadClasses
    /\ given.tuple = <<None>>

\* C14: a base Message or one of the six payload-wrapping variants constructed
\* with payload None stores no payload, so it is the same as one constructed
\* with no payload: contents returns None, the generic encoding is the
\* one-element sequence holding the encoded None, and decoding that gives an
\* instance of the decoding variant whose contents is None.  CommandMessage,
\* PlanCommandMessage and ExecuteWorkerFunctionMessage never store a payload
\* and their contents is always a pair, never None.
C14_AbsentAndNoneCoincide ==
    /\ NonePayloadGiven =>
          /\ "_contents" \notin DOMAIN msg
          /\ msg.cls = "Message" => msg = construct("Message", <<>>)
          /\ viewed # Nil => viewed = Ret(None)
          /\ sent # Nil => sent.tuple = <<serde_simplify(None)>>
          /\ (detailed # Nil /\ wire = sent /\ decoder \in PayloadClasses) =>
                /\ IsRet(detailed)
                /\ detailed.returned.cls = decoder
                /\ "_contents" \notin DOMAIN detailed.returned
                /\ contents(detailed.returned) = None
    /\ (msg # Nil /\ msg.cls = "Message" /\ given.tuple = <<>>) =>
          /\ "_contents" \notin DOMAIN msg
          /\ viewed # Nil => viewed = Ret(None)
          /\ sent # Nil => sent.tuple = <<serde_simplify(None)>>
    /\ (msg # Nil /\ msg.cls \notin PayloadClasses) =>
          /\ "_contents" \notin DOMAIN msg
          /\ viewed # Nil =>
                /\ IsRet(viewed)
                /\ viewed.returned # None
                /\ viewed.returned.k = "tuple"
                /\ Len(viewed.returned.items) = 2

C14_Witness ==
    /\ NonePayloadGiven
    /\ msg.cls = "ObjectRequestMessage"
    /\ viewed = Ret(None)
    /\ detailed # Nil
    /\ wire = sent
    /\ decoder = "SearchMessage"
    /\ contents(detailed.returned) = None

====
